---- MODULE Spec2Model ----
(***************************************************************************)
(* A model of the WebSocket message stream of src/src/proto.rs:            *)
(* WebsocketStream (the closing-handshake state, the reassembly of         *)
(* fragmented messages, the automatic replies to Ping and Close), the      *)
(* Message <-> (opcode, payload) conversions and the close codes.          *)
(*                                                                         *)
(* Bytes are integers 0..255, payloads and strings are sequences of bytes  *)
(* (a Rust String is a byte sequence that is valid UTF-8).                 *)
(* write_message is one action. read_message is one action from its call   *)
(* to its first wait for the transport, and one action for each item the   *)
(* transport then yields (a frame, an error or end of input), up to the    *)
(* return. Whether a transport write fails is an input of the action.      *)
(*                                                                         *)
(* The frame codec (WebsocketProtocol's decode and encode) is modelled at  *)
(* the level of bytes and has a specification of its own, SpecCodec, in    *)
(* which a message is framed, encoded and decoded again.                   *)
(***************************************************************************)
EXTENDS Integers, Sequences, FiniteSets, TLC

VARIABLES
    role,             \* WebsocketProtocol.role, fixed at construction
    state,            \* WebsocketStream.state
    framing_payload,  \* WebsocketStream.framing_payload
    framing_opcode,   \* WebsocketStream.framing_opcode
    framing_final,    \* WebsocketStream.framing_final
    pc,               \* "caller": no call in progress; "next": a read_message
                      \* call is suspended in self.protocol.next().await
    call,             \* the last call made on the stream
    ret,              \* what that call returned to its caller
    raw,              \* what read_full_message returned inside that call
    sent,             \* the frames that call wrote to the transport
    rx,               \* the last item that call took from the transport
    before,           \* the stream state when that call started
    arg,              \* the message that call was given to write
    prev_close,       \* the call before that one was a read_message that
                      \* received a Close while the state was Active
    msg_opcode,       \* reference reassembly: opcode of the message in progress
    msg_payload,      \* reference reassembly: its fragments' payloads, in order
    msg_verdict,      \* reference reassembly: its verdict on the last data frame
    had_error,        \* a call before that one returned a protocol error
    had_close,        \* a call before that one wrote a Close frame
    codec             \* the codec pipeline: a message on its way through
                      \* into_raw, the framing, encode and decode

vars == <<role, state, framing_payload, framing_opcode, framing_final, pc,
          call, ret, raw, sent, rx, before, arg, prev_close,
          msg_opcode, msg_payload, msg_verdict, had_error, had_close, codec>>

-----------------------------------------------------------------------------
(* Bounds of the model *)

\* most bytes a message under reassembly accumulates
MaxBuf == 3

-----------------------------------------------------------------------------
(* Program constants and enumerations *)

FRAME_SIZE == 4096

OpCode == {"Continuation", "Text", "Binary", "Close", "Ping", "Pong"}

is_control(opcode) == opcode \in {"Close", "Ping", "Pong"}

Role == {"Client", "Server"}

StreamState == {"Active", "ClosedByPeer", "ClosedByUs", "CloseAcknowledged",
                "Terminated"}

ProtocolError ==
    {"InvalidCloseCode", "InvalidCloseSequence", "InvalidOpcode", "InvalidRsv",
     "InvalidPayloadLength", "InvalidUtf8", "DisallowedOpcode",
     "DisallowedCloseCode", "MessageCannotBeText", "ServerMaskedData",
     "InvalidControlFrameLength", "FragmentedControlFrame",
     "UnexpectedContinuation", "UnfinishedMessage"}

\* Error::Io wraps the transport's error: one from its read half, one from
\* its write half.
Error == {"AlreadyClosed", "ConnectionClosed", "IoRead", "IoWrite"}
             \cup ProtocolError

can_read(s) == s \in {"Active", "ClosedByUs"}

\* check_active with the Terminated case lost
check_active_always(s) == TRUE

\* StreamState::check_active: TRUE for Ok(()), FALSE for Err(AlreadyClosed)
check_active(s) == s # "Terminated"

-----------------------------------------------------------------------------
(* Close codes *)

UnitCloseCode == {"NormalClosure", "GoingAway", "ProtocolError",
                  "UnsupportedData", "Reserved", "NoStatusReceived",
                  "AbnormalClosure", "InvalidFramePayloadData",
                  "PolicyViolation", "MessageTooBig", "MandatoryExtension",
                  "InternalServerError", "TlsHandshake"}

\* a CloseCode value: the variant, and the u16 the three tuple variants carry
Code(name, value) == [name |-> name, value |-> value]

NoCode == Code("-", 0)

\* TryFrom<u16> for CloseCode
CloseCode_try_from(value) ==
    CASE value = 1000 -> [ok |-> TRUE, err |-> "-", code |-> Code("NormalClosure", 0)]
      [] value = 1001 -> [ok |-> TRUE, err |-> "-", code |-> Code("GoingAway", 0)]
      [] value = 1002 -> [ok |-> TRUE, err |-> "-", code |-> Code("ProtocolError", 0)]
      [] value = 1003 -> [ok |-> TRUE, err |-> "-", code |-> Code("UnsupportedData", 0)]
      [] value = 1004 -> [ok |-> TRUE, err |-> "-", code |-> Code("Reserved", 0)]
      [] value = 1005 -> [ok |-> TRUE, err |-> "-", code |-> Code("NoStatusReceived", 0)]
      [] value = 1006 -> [ok |-> TRUE, err |-> "-", code |-> Code("AbnormalClosure", 0)]
      [] value = 1007 -> [ok |-> TRUE, err |-> "-", code |-> Code("InvalidFramePayloadData", 0)]
      [] value = 1008 -> [ok |-> TRUE, err |-> "-", code |-> Code("PolicyViolation", 0)]
      [] value = 1009 -> [ok |-> TRUE, err |-> "-", code |-> Code("MessageTooBig", 0)]
      [] value = 1010 -> [ok |-> TRUE, err |-> "-", code |-> Code("MandatoryExtension", 0)]
      [] value = 1011 -> [ok |-> TRUE, err |-> "-", code |-> Code("InternalServerError", 0)]
      [] value = 1015 -> [ok |-> TRUE, err |-> "-", code |-> Code("TlsHandshake", 0)]
      [] value \in (1000..2999) \ ((1000..1011) \cup {1015}) ->
             [ok |-> TRUE, err |-> "-", code |-> Code("ReservedForStandards", value)]
      [] value \in 3000..3999 ->
             [ok |-> TRUE, err |-> "-", code |-> Code("Libraries", value)]
      [] value \in 4000..4999 ->
             [ok |-> TRUE, err |-> "-", code |-> Code("Private", value)]
      [] OTHER -> [ok |-> FALSE, err |-> "InvalidCloseCode", code |-> NoCode]

\* Into<u16> for CloseCode
CloseCode_into(code) ==
    CASE code.name = "NormalClosure" -> 1000
      [] code.name = "GoingAway" -> 1001
      [] code.name = "ProtocolError" -> 1002
      [] code.name = "UnsupportedData" -> 1003
      [] code.name = "Reserved" -> 1004
      [] code.name = "NoStatusReceived" -> 1005
      [] code.name = "AbnormalClosure" -> 1006
      [] code.name = "InvalidFramePayloadData" -> 1007
      [] code.name = "PolicyViolation" -> 1008
      [] code.name = "MessageTooBig" -> 1009
      [] code.name = "MandatoryExtension" -> 1010
      [] code.name = "InternalServerError" -> 1011
      [] code.name = "TlsHandshake" -> 1015
      [] OTHER -> code.value

is_allowed(code) ==
    code.name \notin {"Reserved", "NoStatusReceived", "AbnormalClosure",
                      "TlsHandshake", "ReservedForStandards"}

-----------------------------------------------------------------------------
(* Frames and messages *)

Frame(opcode, is_final, payload) ==
    [opcode |-> opcode, is_final |-> is_final, payload |-> payload]

\* String::from_utf8: TRUE iff the bytes are well-formed UTF-8 (no overlong
\* form, no surrogate, nothing above U+10FFFF)
RECURSIVE from_utf8(_)
from_utf8(b) ==
    LET n == Len(b)
        cont(i) == i <= n /\ b[i] \in 128..191
        rest(k) == from_utf8(SubSeq(b, k + 1, n))
    IN  IF n = 0 THEN TRUE
        ELSE CASE b[1] \in 0..127 -> rest(1)
               [] b[1] \in 194..223 -> cont(2) /\ rest(2)
               [] b[1] = 224 -> n >= 2 /\ b[2] \in 160..191 /\ cont(3) /\ rest(3)
               [] b[1] \in (225..236) \cup (238..239) ->
                      cont(2) /\ cont(3) /\ rest(3)
               [] b[1] = 237 -> n >= 2 /\ b[2] \in 128..159 /\ cont(3) /\ rest(3)
               [] b[1] = 240 ->
                      n >= 2 /\ b[2] \in 144..191 /\ cont(3) /\ cont(4) /\ rest(4)
               [] b[1] \in 241..243 -> cont(2) /\ cont(3) /\ cont(4) /\ rest(4)
               [] b[1] = 244 ->
                      n >= 2 /\ b[2] \in 128..143 /\ cont(3) /\ cont(4) /\ rest(4)
               [] OTHER -> FALSE

\* the Message enum; Text carries a String (valid UTF-8 by construction)
Text(s) == [kind |-> "Text", data |-> s, some |-> FALSE, code |-> NoCode,
            reason |-> <<>>]
Binary(d) == [kind |-> "Binary", data |-> d, some |-> FALSE, code |-> NoCode,
              reason |-> <<>>]
Ping(d) == [kind |-> "Ping", data |-> d, some |-> FALSE, code |-> NoCode,
            reason |-> <<>>]
Pong(d) == [kind |-> "Pong", data |-> d, some |-> FALSE, code |-> NoCode,
            reason |-> <<>>]
CloseNone == [kind |-> "Close", data |-> <<>>, some |-> FALSE, code |-> NoCode,
              reason |-> <<>>]
CloseSome(code, reason) ==
    [kind |-> "Close", data |-> <<>>, some |-> TRUE, code |-> code,
     reason |-> reason]

NoMsg == [kind |-> "-", data |-> <<>>, some |-> FALSE, code |-> NoCode,
          reason |-> <<>>]

is_close(message) == message.kind = "Close"

u16_from_be_bytes(hi, lo) == hi * 256 + lo

\* the two bytes, least significant first
u16_to_le_bytes(v) == <<v % 256, (v \div 256) % 256>>

u16_to_be_bytes(v) == <<(v \div 256) % 256, v % 256>>

\* Message::from_raw. A one-byte Close payload makes data[..2] panic.
from_raw(opcode, data) ==
    LET Fail(e) == [ok |-> FALSE, err |-> e, msg |-> NoMsg]
        Good(m) == [ok |-> TRUE, err |-> "-", msg |-> m]
    IN  CASE opcode = "Continuation" -> Fail("DisallowedOpcode")
          [] opcode = "Text" ->
                 IF from_utf8(data) THEN Good(Text(data)) ELSE Fail("InvalidUtf8")
          [] opcode = "Binary" -> Good(Binary(data))
          [] opcode = "Close" ->
                 IF Len(data) = 0 THEN Good(CloseNone)
                 ELSE IF Len(data) = 1 THEN Fail("panic")
                 ELSE LET cc == CloseCode_try_from(u16_from_be_bytes(data[1], data[2]))
                          reason == SubSeq(data, 3, Len(data))
                      IN  IF ~cc.ok THEN Fail(cc.err)
                          ELSE IF ~is_allowed(cc.code) THEN Fail("DisallowedCloseCode")
                          ELSE IF ~from_utf8(reason) THEN Fail("InvalidUtf8")
                          ELSE Good(CloseSome(cc.code, reason))
          [] opcode = "Ping" -> Good(Ping(data))
          [] opcode = "Pong" -> Good(Pong(data))

\* prepend_slice copying the slice behind the vector's contents
prepend_slice_behind(vec, slice) == vec \o slice

\* prepend_slice: the slice, then the vector's old contents
prepend_slice(vec, slice) == slice \o vec

\* Message::into_raw
into_raw(message) ==
    CASE message.kind = "Text" -> [opcode |-> "Text", data |-> message.data]
      [] message.kind = "Binary" -> [opcode |-> "Binary", data |-> message.data]
      [] message.kind = "Close" ->
             IF message.some
             THEN [opcode |-> "Close",
                   data |-> prepend_slice(message.reason,
                                u16_to_be_bytes(CloseCode_into(message.code)))]
             ELSE [opcode |-> "Close", data |-> <<>>]
      [] message.kind = "Ping" -> [opcode |-> "Ping", data |-> message.data]
      [] message.kind = "Pong" -> [opcode |-> "Pong", data |-> message.data]

\* ProtocolError::to_close; "invalid utf8" and "protocol violation" in ASCII
to_close(e) ==
    IF e = "InvalidUtf8"
    THEN CloseSome(Code("InvalidFramePayloadData", 0),
                   <<105, 110, 118, 97, 108, 105, 100, 32, 117, 116, 102, 56>>)
    ELSE CloseSome(Code("ProtocolError", 0),
                   <<112, 114, 111, 116, 111, 99, 111, 108, 32,
                     118, 105, 111, 108, 97, 116, 105, 111, 110>>)

-----------------------------------------------------------------------------
(* write_message *)

\* data.chunks(FRAME_SIZE): consecutive slices of FRAME_SIZE bytes, the last
\* one shorter; none for empty data
RECURSIVE chunks(_)
chunks(data) ==
    IF Len(data) = 0 THEN <<>>
    ELSE IF Len(data) <= FRAME_SIZE THEN <<data>>
    ELSE <<SubSeq(data, 1, FRAME_SIZE)>>
             \o chunks(SubSeq(data, FRAME_SIZE + 1, Len(data)))

\* frames that all carry the message's opcode
frames_of_same_opcode(opcode, data) ==
    LET cs == IF chunks(data) = <<>> THEN <<(<<>>)>> ELSE chunks(data)
    IN  [i \in 1..Len(cs) |-> Frame(opcode, i = Len(cs), cs[i])]

\* the frames the while loop of write_message builds, in order
frames_of(opcode, data) ==
    LET cs == IF chunks(data) = <<>> THEN <<(<<>>)>> ELSE chunks(data)
    IN  [i \in 1..Len(cs) |->
            Frame(IF i = 1 THEN opcode ELSE "Continuation", i = Len(cs), cs[i])]

\* the test that ends write_message without the test of the role
terminates_any_role(r, s) == ~can_read(s)

\* the test that ends write_message: the Server side of a stream that may
\* not be read any more
terminates(r, s) == r = "Server" /\ ~can_read(s)

\* WebsocketStream::write_message on a stream in state s. failAt is the
\* send that the transport fails (0: none fails). Returns the new state, the
\* result ("Ok" or an Error) and the frames written.
write_message(s, r, message, failAt) ==
    IF ~check_active(s)
    THEN [state |-> s, res |-> "AlreadyClosed", sent |-> <<>>]
    ELSE LET s1 == IF is_close(message) THEN "ClosedByUs" ELSE s
             rw == into_raw(message)
             frames == frames_of(rw.opcode, rw.data)
         IN  IF failAt \in 1..Len(frames)
             THEN [state |-> s1, res |-> "IoWrite",
                   sent |-> SubSeq(frames, 1, failAt - 1)]
             ELSE IF terminates(r, s1)
             THEN [state |-> "Terminated", res |-> "ConnectionClosed",
                   sent |-> frames]
             ELSE [state |-> s1, res |-> "Ok", sent |-> frames]

-----------------------------------------------------------------------------
(* read_full_message and read_message *)

\* the fields of WebsocketStream that the calls read and write
Stream(s, payload, opcode, final) ==
    [state |-> s, framing_payload |-> payload, framing_opcode |-> opcode,
     framing_final |-> final]

\* what self.protocol.next() yields: Some(Ok(frame)), Some(Err(e)) or None
ItemFrame(f) == [kind |-> "frame", frame |-> f, err |-> "-"]
ItemErr(e) == [kind |-> "err", frame |-> Frame("Continuation", FALSE, <<>>),
               err |-> e]
ItemEof == [kind |-> "eof", frame |-> Frame("Continuation", FALSE, <<>>),
            err |-> "-"]
NoItem == [kind |-> "-", frame |-> Frame("Continuation", FALSE, <<>>),
           err |-> "-"]

\* the result of read_full_message: kind is "raw" for Some(Ok((opcode,
\* payload))), "err" for Some(Err(err)), "eof" for None, and "more" while the
\* call is suspended in self.protocol.next().await
Full(kind, err, opcode, payload, st) ==
    [kind |-> kind, err |-> err, opcode |-> opcode, payload |-> payload,
     st |-> st]

\* the lines after the loop without the reset of framing_opcode
read_loop_keeps_opcode(st) ==
    IF st.framing_final
    THEN Full("raw", "-", st.framing_opcode, st.framing_payload,
              Stream(st.state, <<>>, st.framing_opcode, FALSE))
    ELSE Full("more", "-", "Continuation", <<>>, st)

\* read_full_message where the while loop tests framing_final: the lines
\* after the loop when it is set, another self.protocol.next() when not
read_loop(st) ==
    IF st.framing_final
    THEN Full("raw", "-", st.framing_opcode, st.framing_payload,
              Stream(st.state, <<>>, "Continuation", FALSE))
    ELSE Full("more", "-", "Continuation", <<>>, st)

\* WebsocketStream::read_full_message from its start to the first await
read_full_message(st) ==
    IF ~check_active(st.state)
    THEN Full("err", "AlreadyClosed", "Continuation", <<>>, st)
    ELSE read_loop(st)

\* a control frame returned through the lines that end a data message,
\* which reset the reassembly
control_resets(st, frame) ==
    Full("raw", "-", frame.opcode, frame.payload,
         [state |-> st.state, framing_payload |-> <<>>,
          framing_opcode |-> "Continuation", framing_final |-> FALSE])

\* a control frame is returned as it is, whatever is in progress
control(st, frame) == Full("raw", "-", frame.opcode, frame.payload, st)

\* a data frame accepted with framing_opcode set from every frame
accept_every_opcode(st, frame) ==
    [state |-> st.state,
     framing_payload |-> st.framing_payload \o frame.payload,
     framing_opcode |-> frame.opcode,
     framing_final |-> frame.is_final]

\* a data frame that passed the sequencing tests: the first frame of a
\* message sets framing_opcode, every frame sets framing_final and adds its
\* payload to framing_payload
accept(st, frame) ==
    Stream(st.state,
           st.framing_payload \o frame.payload,
           IF st.framing_opcode = "Continuation"
               THEN frame.opcode ELSE st.framing_opcode,
           frame.is_final)

\* read_full_message from the item that self.protocol.next() yields to the
\* return or the next await
read_next(st, item) ==
    LET frame == item.frame
        appended == accept(st, frame)
    IN  CASE item.kind = "eof" -> Full("eof", "-", "Continuation", <<>>, st)
          [] item.kind = "err" -> Full("err", item.err, "Continuation", <<>>, st)
          [] OTHER ->
                 IF is_control(frame.opcode)
                 THEN control(st, frame)
                 ELSE IF st.framing_opcode = "Continuation"
                 THEN IF frame.opcode = "Continuation"
                      THEN Full("err", "UnexpectedContinuation", "Continuation",
                                <<>>, st)
                      ELSE read_loop(appended)
                 ELSE IF frame.opcode # "Continuation"
                 THEN Full("err", "UnfinishedMessage", "Continuation", <<>>, st)
                 ELSE read_loop(appended)

\* what a call returned: kind is "Ok" (with the message, for a read), "Err"
\* (with the error), "None" (end of stream), "panic", or "pending" while the
\* call has not returned
Ret(kind, err, msg) == [kind |-> kind, err |-> err, msg |-> msg]

NoRaw == [kind |-> "-", err |-> "-", opcode |-> "Continuation",
          payload |-> <<>>]

\* a reply to a Ping that drops the payload
pong_reply_empty(data) == Pong(<<>>)

\* the reply to a Ping
pong_reply(data) == Pong(data)

\* the outcome of read_message: the stream, what is returned, the frames
\* written
Read(st, ret_, sent_) == [st |-> st, ret |-> ret_, sent |-> sent_]

\* WebsocketStream::read_message once read_full_message has returned full;
\* failAt is the transport write that fails (0: none)
read_message(full, r, failAt) ==
    LET st1 == full.st
        \* write_message(message) on the stream in state s1; then the value
        \* `after`, unless the write fails
        Writing(s1, message, after) ==
            LET w == write_message(s1, r, message, failAt)
                st2 == [st1 EXCEPT !.state = w.state]
            IN  IF w.res # "Ok"
                THEN Read(st2, Ret("Err", w.res, NoMsg), w.sent)
                ELSE Read(st2, after, w.sent)
    IN  CASE full.kind = "eof" -> Read(st1, Ret("None", "-", NoMsg), <<>>)
          [] full.kind = "err" ->
                 IF full.err \in ProtocolError
                 THEN Writing(st1.state, to_close(full.err),
                              Ret("Err", full.err, NoMsg))
                 ELSE Read(st1, Ret("Err", full.err, NoMsg), <<>>)
          [] OTHER ->
                 LET m == from_raw(full.opcode, full.payload)
                     message == m.msg
                 IN  IF ~m.ok
                     THEN IF m.err = "panic"
                          THEN Read(st1, Ret("panic", "-", NoMsg), <<>>)
                          ELSE Writing(st1.state, to_close(m.err),
                                       Ret("Err", m.err, NoMsg))
                     ELSE CASE message.kind = "Close" ->
                                   CASE st1.state = "Active" ->
                                            Writing("ClosedByPeer", message,
                                                    Ret("Ok", "-", message))
                                     [] st1.state \in {"ClosedByPeer",
                                                       "CloseAcknowledged"} ->
                                            Read(st1, Ret("None", "-", NoMsg),
                                                 <<>>)
                                     [] st1.state = "ClosedByUs" ->
                                            Read([st1 EXCEPT !.state =
                                                      "CloseAcknowledged"],
                                                 Ret("Ok", "-", message), <<>>)
                                     [] OTHER ->
                                            Read(st1, Ret("panic", "-", NoMsg),
                                                 <<>>)
                            [] message.kind = "Ping" ->
                                   Writing(st1.state, pong_reply(message.data),
                                           Ret("Ok", "-", message))
                            [] OTHER ->
                                   Read(st1, Ret("Ok", "-", message), <<>>)

-----------------------------------------------------------------------------
(* The frame codec: WebsocketProtocol's Decoder and Encoder *)

\* TryFrom<u8> for OpCode
OpCode_try_from(value) ==
    CASE value = 0 -> [ok |-> TRUE, err |-> "-", opcode |-> "Continuation"]
      [] value = 1 -> [ok |-> TRUE, err |-> "-", opcode |-> "Text"]
      [] value = 2 -> [ok |-> TRUE, err |-> "-", opcode |-> "Binary"]
      [] value = 8 -> [ok |-> TRUE, err |-> "-", opcode |-> "Close"]
      [] value = 9 -> [ok |-> TRUE, err |-> "-", opcode |-> "Ping"]
      [] value = 10 -> [ok |-> TRUE, err |-> "-", opcode |-> "Pong"]
      [] OTHER -> [ok |-> FALSE, err |-> "InvalidOpcode", opcode |-> "Continuation"]

\* Into<u8> for OpCode
OpCode_into(opcode) ==
    CASE opcode = "Continuation" -> 0
      [] opcode = "Text" -> 1
      [] opcode = "Binary" -> 2
      [] opcode = "Close" -> 8
      [] opcode = "Ping" -> 9
      [] opcode = "Pong" -> 10

\* a ^ b on two bytes
RECURSIVE xor(_, _)
xor(a, b) ==
    IF a = 0 THEN b
    ELSE IF b = 0 THEN a
    ELSE ((a + b) % 2) + 2 * xor(a \div 2, b \div 2)

\* the loops of decode and encode over the payload: byte i (from 0) is
\* xor-ed with byte i % 4 of the masking key
masking(payload, masking_key) ==
    [i \in 1..Len(payload) |-> xor(payload[i], masking_key[((i - 1) % 4) + 1])]

\* u64::from_be_bytes
RECURSIVE u64_from_be_bytes(_)
u64_from_be_bytes(bytes) ==
    IF bytes = <<>> THEN 0
    ELSE u64_from_be_bytes(SubSeq(bytes, 1, Len(bytes) - 1)) * 256
         + bytes[Len(bytes)]

\* BufMut::put_u64 of a length: the eight bytes, most significant first
put_u64(v) ==
    [i \in 1..8 |-> IF i <= 4 THEN 0
                    ELSE CASE i = 5 -> (v \div 16777216) % 256
                           [] i = 6 -> (v \div 65536) % 256
                           [] i = 7 -> (v \div 256) % 256
                           [] i = 8 -> v % 256]

\* what decode returns: Ok(None), Ok(Some(frame)) with the number of bytes
\* it took from the buffer, or Err(e) (which takes none)
NoFrame == Frame("Continuation", FALSE, <<>>)
DecNone == [kind |-> "none", err |-> "-", frame |-> NoFrame, consumed |-> 0]
DecFrame(frame, offset) ==
    [kind |-> "frame", err |-> "-", frame |-> frame, consumed |-> offset]
DecErr(e) == [kind |-> "err", err |-> e, frame |-> NoFrame, consumed |-> 0]

\* the test of ensure_buffer_has_space!, passing only beyond the space asked
has_space_beyond(len, space) == len > space

\* the test of ensure_buffer_has_space!: decode goes on when the buffer
\* holds the space asked, and returns Ok(None) when it does not
has_space(len, space) == ~(len < space)

\* decode from the masking key on: the key, the payload, its unmasking
decode_payload(src, opcode, fin, mask, payload_length, offset0) ==
    IF mask /\ ~has_space(Len(src), offset0 + 4) THEN DecNone
    ELSE LET masking_key == IF mask THEN SubSeq(src, offset0 + 1, offset0 + 4)
                            ELSE <<0, 0, 0, 0>>
             offset1 == IF mask THEN offset0 + 4 ELSE offset0
         IN  IF payload_length = 0 THEN DecFrame(Frame(opcode, fin, <<>>), offset1)
             ELSE IF ~has_space(Len(src), offset1 + payload_length) THEN DecNone
             ELSE IF opcode = "Close" /\ payload_length = 1
             THEN DecErr("InvalidCloseSequence")
             ELSE LET copied == SubSeq(src, offset1 + 1, offset1 + payload_length)
                  IN  DecFrame(Frame(opcode, fin,
                                     IF mask THEN masking(copied, masking_key)
                                     ELSE copied),
                               offset1 + payload_length)

\* Decoder::decode of a decoder of role r on the buffer src
decode(r, src) ==
    IF ~has_space(Len(src), 2) THEN DecNone
    ELSE LET fin_and_rsv == src[1]
             payload_len_1 == src[2]
             fin == (fin_and_rsv \div 128) % 2 # 0
             rsv == ((fin_and_rsv \div 16) % 8) * 16
             opcode == OpCode_try_from(fin_and_rsv % 32)
             mask == payload_len_1 \div 128 # 0
             payload_length == payload_len_1 % 128
         IN  IF rsv # 0 THEN DecErr("InvalidRsv")
             ELSE IF ~opcode.ok THEN DecErr(opcode.err)
             ELSE IF ~fin /\ is_control(opcode.opcode)
             THEN DecErr("FragmentedControlFrame")
             ELSE IF mask /\ r = "Client" THEN DecErr("ServerMaskedData")
             ELSE IF payload_length <= 125
             THEN decode_payload(src, opcode.opcode, fin, mask, payload_length, 2)
             ELSE IF is_control(opcode.opcode)
             THEN DecErr("InvalidControlFrameLength")
             ELSE IF payload_length = 126
             THEN IF ~has_space(Len(src), 4) THEN DecNone
                  ELSE decode_payload(src, opcode.opcode, fin, mask,
                                      u16_from_be_bytes(src[3], src[4]), 4)
             ELSE IF payload_length = 127
             THEN IF ~has_space(Len(src), 10) THEN DecNone
                  ELSE decode_payload(src, opcode.opcode, fin, mask,
                                      u64_from_be_bytes(SubSeq(src, 3, 10)), 10)
             ELSE DecErr("InvalidPayloadLength")

\* Encoder::encode of an encoder of role r: the bytes it adds to dst. mask
\* is the four bytes thread_rng() gives, used when r is Client.
encode(r, item, mask) ==
    LET chunk_size == Len(item.payload)
        masked == r = "Client"
        mask_bit == IF masked THEN 128 ELSE 0
        frame == (IF item.is_final THEN 128 ELSE 0) + OpCode_into(item.opcode)
        length == IF chunk_size > 65535
                  THEN <<127 + mask_bit>> \o put_u64(chunk_size)
                  ELSE IF chunk_size > 125
                  THEN <<126 + mask_bit>> \o u16_to_be_bytes(chunk_size)
                  ELSE <<chunk_size + mask_bit>>
    IN  IF masked
        THEN <<frame>> \o length \o mask \o masking(item.payload, mask)
        ELSE <<frame>> \o length \o item.payload

-----------------------------------------------------------------------------
(* What the transport and the caller hand to the calls *)

\* what WebsocketProtocol::decode guarantees of a Frame it returns: a control
\* frame is final and carries at most 125 bytes, a Close payload is not one
\* byte long
Decoded(f) ==
    /\ is_control(f.opcode) => f.is_final /\ Len(f.payload) <= 125
    /\ f.opcode = "Close" => Len(f.payload) # 1

\* the errors decode returns
DecodeError == {"InvalidRsv", "InvalidOpcode", "FragmentedControlFrame",
                "ServerMaskedData", "InvalidControlFrameLength",
                "InvalidPayloadLength", "InvalidCloseSequence"}

\* payloads of the data frames received: empty, "A", and the first byte of a
\* two-byte UTF-8 sequence
DataPayload == {<<>>, <<65>>, <<195>>}

\* payloads of the Ping and Pong frames received
PingPayload == {<<>>, <<80>>}

\* payloads of the Close frames received: none, 1000, 1000 "A", 3000,
\* 1005 (disallowed), 0 (invalid), 1000 with a reason that is not UTF-8
ClosePayload == {<<>>, <<3, 232>>, <<3, 232, 65>>, <<11, 184>>, <<3, 237>>,
                 <<0, 0>>, <<3, 232, 195>>}

DataFrame ==
    {Frame(o, f, p) : o \in {"Continuation", "Text", "Binary"},
                      f \in BOOLEAN, p \in DataPayload}

ControlFrame ==
    {Frame(o, TRUE, p) : o \in {"Ping", "Pong"}, p \in PingPayload}
        \cup {Frame("Close", TRUE, p) : p \in ClosePayload}

\* the errors the transport yields: decode's, and an I/O error
RxError == DecodeError \cup {"IoRead"}

Item ==
    {ItemFrame(f) : f \in {g \in DataFrame \cup ControlFrame : Decoded(g)}}
        \cup {ItemErr(e) : e \in RxError}
        \cup {ItemEof}

\* the messages the caller writes
WriteInput ==
    {Text(<<>>), Text(<<65>>), Binary(<<>>), Binary(<<195>>),
     Ping(<<80>>), Pong(<<>>), CloseNone,
     CloseSome(Code("NormalClosure", 0), <<>>),
     CloseSome(Code("GoingAway", 0), <<65>>),
     CloseSome(Code("NoStatusReceived", 0), <<>>)}

-----------------------------------------------------------------------------
(* The reassembly the frames call for, kept beside the stream's own *)

\* the message in progress: its first frame's opcode ("-" when there is
\* none) and the payloads of its frames so far, concatenated
Msg(opcode, payload) == [opcode |-> opcode, payload |-> payload]

\* the verdict on a data frame: "partial", "complete" (with the message),
\* "UnexpectedContinuation" or "UnfinishedMessage"; "-" before any
Verdict(kind, opcode, payload) ==
    [kind |-> kind, opcode |-> opcode, payload |-> payload]

\* one frame: control frames pass by; a Text or Binary frame starts a
\* message when none is in progress, a Continuation frame extends the one in
\* progress, and a final frame completes it
RefFrame(mv, f) ==
    LET m == mv.msg
    IN  IF is_control(f.opcode) THEN mv
        ELSE IF m.opcode = "-" /\ f.opcode = "Continuation"
        THEN [msg |-> m, verdict |-> Verdict("UnexpectedContinuation", "-", <<>>)]
        ELSE IF m.opcode # "-" /\ f.opcode # "Continuation"
        THEN [msg |-> m, verdict |-> Verdict("UnfinishedMessage", "-", <<>>)]
        ELSE LET o == IF m.opcode = "-" THEN f.opcode ELSE m.opcode
                 p == m.payload \o f.payload
             IN  IF f.is_final
                 THEN [msg |-> Msg("-", <<>>), verdict |-> Verdict("complete", o, p)]
                 ELSE [msg |-> Msg(o, p), verdict |-> Verdict("partial", "-", <<>>)]

-----------------------------------------------------------------------------
(* The state machine *)

\* the codec pipeline when it is not in use
NoCodec == [stage |-> "-"]

\* WebsocketStream::new, and the model's record of the calls: none yet
New ==
    /\ state = "Active"
    /\ framing_payload = <<>>
    /\ framing_opcode = "Continuation"
    /\ framing_final = FALSE
    /\ pc = "caller"
    /\ call = "new"
    /\ ret = Ret("-", "-", NoMsg)
    /\ raw = NoRaw
    /\ sent = <<>>
    /\ rx = NoItem
    /\ before = "Active"
    /\ arg = NoMsg
    /\ prev_close = FALSE
    /\ msg_opcode = "-"
    /\ msg_payload = <<>>
    /\ msg_verdict = Verdict("-", "-", <<>>)
    /\ had_error = FALSE
    /\ had_close = FALSE

Init ==
    /\ role \in Role
    /\ New
    /\ codec = NoCodec

\* the last call was a read_message that returned a protocol error
ProtocolErrorReturned ==
    call = "read_message" /\ ret.kind = "Err" /\ ret.err \in ProtocolError

\* the last call wrote a Close frame
CloseWritten == \E i \in 1..Len(sent) : sent[i].opcode = "Close"

\* what the calls so far have done, recorded when the next call starts
History ==
    /\ had_error' = (had_error \/ ProtocolErrorReturned)
    /\ had_close' = (had_close \/ CloseWritten)

\* the last call was a read_message that received a Close message
ReceivedClose ==
    /\ call = "read_message"
    /\ raw.kind = "raw"
    /\ raw.opcode = "Close"
    /\ from_raw(raw.opcode, raw.payload).ok

\* the stream's fields after a step of read_full_message that suspends
Suspend(full) ==
    /\ pc' = "next"
    /\ state' = full.st.state
    /\ framing_payload' = full.st.framing_payload
    /\ framing_opcode' = full.st.framing_opcode
    /\ framing_final' = full.st.framing_final
    /\ ret' = Ret("pending", "-", NoMsg)
    /\ raw' = NoRaw
    /\ sent' = <<>>

\* read_message returns after read_full_message returned full. The
\* transport write inside the call, when there is one, succeeds or fails.
Return(full) ==
    \E r0 \in {read_message(full, role, 0)} :
    \E r \in {r0} \cup (IF r0.sent = <<>> THEN {}
                        ELSE {read_message(full, role, 1)}) :
        /\ pc' = "caller"
        /\ state' = r.st.state
        /\ framing_payload' = r.st.framing_payload
        /\ framing_opcode' = r.st.framing_opcode
        /\ framing_final' = r.st.framing_final
        /\ ret' = r.ret
        /\ raw' = [kind |-> full.kind, err |-> full.err,
                   opcode |-> full.opcode, payload |-> full.payload]
        /\ sent' = r.sent

\* the caller calls read_message: the call returns at once on a closed
\* stream, and otherwise waits for the transport
ReadMessage ==
    /\ pc = "caller"
    /\ \E full \in {read_full_message(Stream(state, framing_payload,
                                             framing_opcode, framing_final))} :
           IF full.kind = "more" THEN Suspend(full) ELSE Return(full)
    /\ call' = "read_message"
    /\ rx' = NoItem
    /\ before' = state
    /\ arg' = NoMsg
    /\ prev_close' = (ReceivedClose /\ before = "Active")
    /\ History
    /\ msg_verdict' = Verdict("-", "-", <<>>)
    /\ UNCHANGED <<role, msg_opcode, msg_payload, codec>>

\* the transport yields an item to the read_message call in progress,
\* which takes it and returns or waits for the next
ReadNext ==
    /\ pc = "next"
    /\ \E item \in Item :
           /\ \E full \in {read_next(Stream(state, framing_payload,
                                            framing_opcode, framing_final),
                                     item)} :
                  /\ Len(full.st.framing_payload) <= MaxBuf
                  /\ IF full.kind = "more" THEN Suspend(full) ELSE Return(full)
           /\ rx' = item
           /\ \E mv \in {IF item.kind = "frame"
                         THEN RefFrame([msg |-> Msg(msg_opcode, msg_payload),
                                        verdict |-> msg_verdict], item.frame)
                         ELSE [msg |-> Msg(msg_opcode, msg_payload),
                               verdict |-> msg_verdict]} :
                  /\ msg_opcode' = mv.msg.opcode
                  /\ msg_payload' = mv.msg.payload
                  /\ msg_verdict' = mv.verdict
    /\ UNCHANGED <<role, call, before, arg, prev_close, had_error, had_close,
                   codec>>

\* the caller calls write_message, which returns
WriteMessage ==
    /\ pc = "caller"
    /\ \E message \in WriteInput :
        \E failAt \in 0..Len(frames_of(into_raw(message).opcode,
                                       into_raw(message).data)) :
            \E w \in {write_message(state, role, message, failAt)} :
                /\ state' = w.state
                /\ call' = "write_message"
                /\ ret' = Ret(IF w.res = "Ok" THEN "Ok" ELSE "Err",
                              IF w.res = "Ok" THEN "-" ELSE w.res, NoMsg)
                /\ raw' = NoRaw
                /\ sent' = w.sent
                /\ rx' = NoItem
                /\ before' = state
                /\ arg' = message
                /\ prev_close' = (ReceivedClose /\ before = "Active")
                /\ History
                /\ msg_verdict' = Verdict("-", "-", <<>>)
                /\ UNCHANGED <<role, pc, framing_payload, framing_opcode,
                               framing_final, msg_opcode, msg_payload, codec>>

Next == ReadMessage \/ ReadNext \/ WriteMessage

Spec == Init /\ [][Next]_vars

-----------------------------------------------------------------------------
(* The closing handshake *)

\* the last call has returned
Returned == pc = "caller" /\ call # "new"

\* the last call took a frame with this opcode from the transport as its
\* last item
Took(opcode) == rx.kind = "frame" /\ rx.frame.opcode = opcode

\* the message the last call received
Received == from_raw(raw.opcode, raw.payload).msg

\* no transport write of the last call failed
WritesDone == ~(ret.kind = "Err" /\ ret.err = "IoWrite")

\* C1: for either role, a read_message call that receives a Close message
\* while the state is Active leaves the state ClosedByPeer, and the next
\* read_message call returns end-of-stream (None).
C1_PeerCloseEndsStream ==
    /\ (Returned /\ ReceivedClose /\ before = "Active")
           => state = "ClosedByPeer"
    /\ (Returned /\ call = "read_message" /\ prev_close)
           => ret.kind = "None"

\* C2: a read_message call that receives a Close message while the state is
\* Active and returns it to the caller has written exactly one frame: a
\* final Close frame with the payload (code and reason, or nothing) of the
\* Close received; and the message returned is the one received.
C2_CloseEchoed ==
    (Returned /\ ReceivedClose /\ before = "Active" /\ ret.kind = "Ok")
        => /\ Took("Close")
           /\ sent = <<Frame("Close", TRUE, rx.frame.payload)>>
           /\ ret.msg = from_raw("Close", rx.frame.payload).msg

C2_Witness ==
    /\ Returned /\ ReceivedClose /\ before = "Active" /\ ret.kind = "Ok"
    /\ rx.frame.payload = <<3, 232, 65>>
    /\ sent = <<Frame("Close", TRUE, <<3, 232, 65>>)>>

\* C3: from Active, write_message of a Close leaves the state ClosedByUs; a
\* Close then received by read_message moves the state to CloseAcknowledged;
\* and on a Server the next write_message whose transport writes complete,
\* whatever its message, returns ConnectionClosed and leaves the state
\* Terminated.
C3_CloseByUsThenAcknowledged ==
    /\ (Returned /\ call = "write_message" /\ before = "Active"
            /\ is_close(arg))
           => state = "ClosedByUs"
    /\ (Returned /\ ReceivedClose /\ before = "ClosedByUs")
           => state = "CloseAcknowledged"
    /\ (Returned /\ call = "write_message" /\ role = "Server"
            /\ before = "CloseAcknowledged" /\ WritesDone)
           => /\ ret = Ret("Err", "ConnectionClosed", NoMsg)
              /\ state = "Terminated"

\* C4: on a Server that receives a Close while Active, the echo write, when
\* its transport writes complete, ends with the state Terminated and
\* reports ConnectionClosed; and so does every write_message of a Server
\* from ClosedByPeer or CloseAcknowledged whose transport writes complete.
C4_ServerTerminatesAfterEcho ==
    /\ (Returned /\ ReceivedClose /\ role = "Server" /\ before = "Active"
            /\ WritesDone)
           => /\ state = "Terminated"
              /\ ret = Ret("Err", "ConnectionClosed", NoMsg)
    /\ (Returned /\ call = "write_message" /\ role = "Server"
            /\ before \in {"ClosedByPeer", "CloseAcknowledged"} /\ WritesDone)
           => /\ state = "Terminated"
              /\ ret = Ret("Err", "ConnectionClosed", NoMsg)

\* C5: while the state is ClosedByPeer or CloseAcknowledged, every
\* read_message call that receives a message (Text, Binary, Ping, Pong or
\* Close) returns end-of-stream and delivers no message.
C5_NothingReadAfterPeerClose ==
    (Returned /\ call = "read_message"
        /\ before \in {"ClosedByPeer", "CloseAcknowledged"}
        /\ raw.kind = "raw" /\ from_raw(raw.opcode, raw.payload).ok)
        => ret = Ret("None", "-", NoMsg)

\* C6: once the state is Terminated, every read_message and write_message
\* call fails with AlreadyClosed, writes no frame, takes nothing from the
\* transport and leaves the state Terminated; no call is left waiting.
C6_TerminatedIsFinal ==
    /\ (call # "new" /\ before = "Terminated")
           => /\ pc = "caller"
              /\ ret = Ret("Err", "AlreadyClosed", NoMsg)
              /\ sent = <<>>
              /\ rx = NoItem
              /\ state = "Terminated"
    /\ state = "Terminated" => pc = "caller"

C6_Witness ==
    /\ Returned /\ before = "Terminated" /\ call = "read_message"
    /\ ret.err = "AlreadyClosed"

\* C7: a Client stream is never Terminated, and no call on it returns
\* ConnectionClosed or AlreadyClosed.
C7_ClientNeverTerminates ==
    role = "Client"
        => /\ state # "Terminated"
           /\ ret.err \notin {"ConnectionClosed", "AlreadyClosed"}

C7_Witness ==
    /\ role = "Client" /\ Returned /\ call = "write_message"
    /\ before = "CloseAcknowledged" /\ ret.kind = "Ok"

\* C8: in every stream state, a read_message call that takes a Ping frame
\* writes exactly one frame, a final Pong frame with the Ping's payload,
\* unless the transport fails the write.
C8_PingAnswered ==
    (Returned /\ call = "read_message" /\ Took("Ping"))
        => \/ sent = <<Frame("Pong", TRUE, rx.frame.payload)>>
           \/ (sent = <<>> /\ ret = Ret("Err", "IoWrite", NoMsg))

C8_Witness ==
    /\ Returned /\ call = "read_message" /\ Took("Ping")
    /\ before = "CloseAcknowledged"
    /\ sent = <<Frame("Pong", TRUE, <<80>>)>>

-----------------------------------------------------------------------------
(* Reassembly *)

\* the last item taken from the transport is a data frame
TookData == rx.kind = "frame" /\ ~is_control(rx.frame.opcode)

\* what read_full_message returns for a message
RawOf(opcode, payload) ==
    [kind |-> "raw", err |-> "-", opcode |-> opcode, payload |-> payload]

\* what read_full_message returns for an error
RawErr(e) ==
    [kind |-> "err", err |-> e, opcode |-> "Continuation", payload |-> <<>>]

\* a data message that read_full_message returns is the message that its
\* own frames call for: the first frame's opcode, the payloads in order
DataMessageOfItsFrames ==
    (Returned /\ raw.kind = "raw" /\ ~is_control(raw.opcode))
        => raw = RawOf(msg_verdict.opcode, msg_verdict.payload)

\* the step of a read_message call that takes a control frame: the call
\* returns on it, read_full_message returns its opcode and payload, the
\* reassembly fields keep their values, a message returned is the control
\* frame's, and from Active it is returned whenever its payload is well
\* formed and the transport write succeeds
ControlFrameStep ==
    (pc = "next" /\ rx'.kind = "frame" /\ is_control(rx'.frame.opcode))
        => /\ pc' = "caller"
           /\ raw' = RawOf(rx'.frame.opcode, rx'.frame.payload)
           /\ framing_payload' = framing_payload
           /\ framing_opcode' = framing_opcode
           /\ framing_final' = framing_final
           /\ ret'.kind = "Ok"
                  => ret'.msg = from_raw(rx'.frame.opcode, rx'.frame.payload).msg
           /\ (/\ state = "Active"
               /\ from_raw(rx'.frame.opcode, rx'.frame.payload).ok
               /\ ret' # Ret("Err", "IoWrite", NoMsg))
                  => ret'.kind = "Ok"

\* C9: a control frame (Ping, Pong or Close) taken between two fragments of
\* a data message in progress is handled on its own by that read_message
\* call and leaves framing_payload, framing_opcode and framing_final as
\* they were, so that the data message later completes as the
\* concatenation of its own fragments.
C9_ControlFrameInterleaved ==
    [][ControlFrameStep]_vars /\ []DataMessageOfItsFrames

C9_Witness ==
    /\ Returned /\ Took("Ping") /\ ret = Ret("Ok", "-", Ping(<<80>>))
    /\ framing_opcode = "Text" /\ framing_payload = <<65, 195>>

\* C10: reassembly accepts the data frames that form one Text or Binary
\* frame followed by Continuation frames up to the first final frame, and
\* delivers the first frame's opcode with the payloads concatenated in
\* order; a Continuation frame with no message in progress fails with
\* UnexpectedContinuation, a Text or Binary frame with a message in
\* progress fails with UnfinishedMessage.
C10_Reassembly ==
    /\ framing_opcode = (IF msg_opcode = "-" THEN "Continuation" ELSE msg_opcode)
    /\ framing_payload = msg_payload
    /\ TookData =>
           CASE msg_verdict.kind = "partial" -> pc = "next"
             [] msg_verdict.kind = "complete" ->
                    /\ Returned
                    /\ raw = RawOf(msg_verdict.opcode, msg_verdict.payload)
                    /\ from_raw(raw.opcode, raw.payload).ok
                           => ret = Ret("Ok", "-", Received)
             [] msg_verdict.kind \in {"UnexpectedContinuation",
                                      "UnfinishedMessage"} ->
                    /\ Returned
                    /\ raw = RawErr(msg_verdict.kind)
                    /\ ret \in {Ret("Err", msg_verdict.kind, NoMsg),
                                Ret("Err", "IoWrite", NoMsg)}
             [] OTHER -> FALSE

C10_Witness ==
    /\ Returned /\ TookData
    /\ raw = RawOf("Text", <<65, 65, 65>>)
    /\ ret = Ret("Ok", "-", Text(<<65, 65, 65>>))

-----------------------------------------------------------------------------
(* Protocol errors *)

\* the protocol error the last read_message call met: one that
\* read_full_message returned, or one from converting the payload ("-": none)
Met ==
    IF call # "read_message" THEN "-"
    ELSE IF raw.kind = "err" /\ raw.err \in ProtocolError THEN raw.err
    ELSE IF raw.kind = "raw" /\ ~from_raw(raw.opcode, raw.payload).ok
    THEN from_raw(raw.opcode, raw.payload).err
    ELSE "-"

\* the Close frame for a protocol error: 1007 "invalid utf8" or 1002
\* "protocol violation"
ErrorClose(e) ==
    Frame("Close", TRUE,
          IF e = "InvalidUtf8"
          THEN <<3, 239, 105, 110, 118, 97, 108, 105, 100, 32, 117, 116, 102, 56>>
          ELSE <<3, 234, 112, 114, 111, 116, 111, 99, 111, 108, 32,
                 118, 105, 111, 108, 97, 116, 105, 111, 110>>)

\* C13: a read_message call that meets a protocol error attempts to send a
\* Close frame with code 1007 for InvalidUtf8 and 1002 for any other
\* protocol error, and returns the protocol error it met.
C13_ErrorCloseThenOriginal ==
    (Returned /\ Met \in ProtocolError)
        => /\ sent \in {<<>>, <<ErrorClose(Met)>>}
           /\ ret = Ret("Err", Met, NoMsg)

\* the close codes that must not be on the wire: 1004, 1005, 1006, 1015 and
\* the codes of 1000..2999 that have no name
Disallowed(value) ==
    value \in (1000..2999) \ {1000, 1001, 1002, 1003, 1007, 1008, 1009, 1010, 1011}

\* the close code in the payload of a Close frame that has one
CodeOf(payload) == u16_from_be_bytes(payload[1], payload[2])

\* a received Close with a disallowed code is not delivered: the call
\* returns an error, DisallowedCloseCode unless the write of the Close failed
DisallowedRejected ==
    (Returned /\ call = "read_message" /\ raw.kind = "raw"
        /\ raw.opcode = "Close" /\ Len(raw.payload) >= 2
        /\ Disallowed(CodeOf(raw.payload)))
        => /\ ret.kind = "Err"
           /\ WritesDone => ret.err = "DisallowedCloseCode"

\* C14: no Close frame the stream sends carries a disallowed close code,
\* whatever message the caller writes, and a received Close that carries one
\* is rejected with DisallowedCloseCode and not delivered.
C14_DisallowedNeverOnWire ==
    /\ \A i \in 1..Len(sent) :
           (sent[i].opcode = "Close" /\ Len(sent[i].payload) >= 2)
               => ~Disallowed(CodeOf(sent[i].payload))
    /\ DisallowedRejected

-----------------------------------------------------------------------------
(* The stream after an error, and after a Close frame *)

\* the last call delivered a message to the caller
Delivered == call = "read_message" /\ ret.kind = "Ok"

\* C19: after read_message has returned a protocol error to the caller, no
\* later read_message call delivers a message and no later write_message
\* call sends a frame.
C19_UnusableAfterError ==
    (Returned /\ had_error)
        => /\ ~Delivered
           /\ call = "write_message" => sent = <<>>

\* C20: once the stream has sent a Close frame (written by the caller, the
\* echo of the peer's Close, or the Close for an error), no later
\* read_message or write_message call sends a frame of any kind.
C20_NothingSentAfterClose ==
    (Returned /\ had_close) => sent = <<>>

-----------------------------------------------------------------------------
(* The order of the closing-handshake states *)

\* Active < {ClosedByPeer, ClosedByUs} < CloseAcknowledged < Terminated
Rank(s) ==
    CASE s = "Active" -> 0
      [] s \in {"ClosedByPeer", "ClosedByUs"} -> 1
      [] s = "CloseAcknowledged" -> 2
      [] s = "Terminated" -> 3

\* C21: the closing-handshake state never moves backwards in the order
\* Active < {ClosedByPeer, ClosedByUs} < CloseAcknowledged < Terminated: no
\* call returns it to Active, and once it is CloseAcknowledged it stays
\* CloseAcknowledged or becomes Terminated.
C21_StateNeverBackwards == [][Rank(state') >= Rank(state)]_vars

-----------------------------------------------------------------------------
(* The reassembly fields when read_message returns *)

\* the last call was a read_message, and it has returned
ReadReturned == Returned /\ call = "read_message"

\* the last call returned a data message that its last frame completed
Completed == raw.kind = "raw" /\ raw.opcode \in {"Text", "Binary"}

\* the three fields as WebsocketStream::new sets them
Reset ==
    /\ framing_payload = <<>>
    /\ framing_opcode = "Continuation"
    /\ framing_final = FALSE

\* C22 as stated: whenever read_message returns, framing_final is false,
\* framing_opcode is Continuation exactly when framing_payload holds no
\* bytes, and a message that completes resets all three fields.
C22_OpcodeIffNoBytes ==
    ReadReturned
        => /\ framing_final = FALSE
           /\ framing_opcode = "Continuation" <=> framing_payload = <<>>
           /\ Completed => Reset

\* C22: whenever read_message returns, framing_final is false;
\* framing_opcode is Continuation exactly when no message is in progress,
\* and framing_payload is then empty; while a message is in progress
\* framing_opcode is its first frame's opcode and framing_payload holds the
\* bytes of its frames so far, which may be none; a message that completes
\* resets all three fields.
C22_ReassemblyConsistent ==
    ReadReturned
        => /\ framing_final = FALSE
           /\ framing_opcode = "Continuation" <=> msg_opcode = "-"
           /\ framing_opcode = "Continuation" => framing_payload = <<>>
           /\ msg_opcode # "-" => framing_opcode = msg_opcode
           /\ framing_payload = msg_payload
           /\ Completed => Reset

\* a Ping was returned while a Text message is in progress whose only frame
\* so far carried no bytes
C22_Witness ==
    /\ ReadReturned
    /\ Took("Ping")
    /\ ret.kind = "Ok"
    /\ framing_opcode = "Text"
    /\ framing_payload = <<>>
    /\ msg_opcode = "Text"

-----------------------------------------------------------------------------
(* The codec on its own: a message written by a stream of role enc goes    *)
(* through into_raw, the framing of write_message and encode, and the      *)
(* bytes of each frame go to a decoder of role dec, first all at once and  *)
(* then one byte at a time. A decoder is also handed frames as a peer may  *)
(* put them on the wire.                                                   *)

\* the largest number of full chunks in a message written
MaxChunks == 2

\* n arbitrary bytes, and n bytes of ASCII text
Bytes(n) == [i \in 1..n |-> (i * 37) % 256]
Ascii(n) == [i \in 1..n |-> 65 + (i % 26)]

\* payload lengths around the limits of the one-byte length, the lengths of
\* the strings, and lengths around the multiples of FRAME_SIZE
SmallLen == {0, 1, 2, 125, 126, 127}
TextLen == {0, 1, 2}
BigLen == {k * FRAME_SIZE + d : k \in 1..MaxChunks, d \in {-1, 0, 1}}

\* CloseCode values a caller can write down: unit variants, and the tuple
\* variants with a number of their range, of another variant's, or of none
CodeInput ==
    {Code("NormalClosure", 0), Code("GoingAway", 0),
     Code("NoStatusReceived", 0), Code("TlsHandshake", 0),
     Code("ReservedForStandards", 1016), Code("Libraries", 3000),
     Code("Private", 4999), Code("Libraries", 1000), Code("Private", 7)}

\* the messages a caller can build (a Text holds a String, valid UTF-8)
SmallMessage ==
    {Text(Ascii(n)) : n \in TextLen} \cup {Text(<<206, 169>>)}
    \cup {Binary(Bytes(n)) : n \in SmallLen}
    \cup {Ping(Bytes(n)) : n \in SmallLen}
    \cup {Pong(Bytes(n)) : n \in SmallLen}
    \cup {CloseNone}
    \cup {CloseSome(c, Ascii(n)) : c \in CodeInput, n \in TextLen}

BigMessage ==
    {Binary(Bytes(n)) : n \in BigLen} \cup {Ping(Bytes(FRAME_SIZE + 1))}

\* the four bytes thread_rng() may give
ZeroKey == <<0, 0, 0, 0>>
MaskKey == {ZeroKey, <<55, 250, 33, 61>>, <<255, 255, 255, 255>>}

\* frames as a peer may put them on the wire: Text "A" unmasked; Binary "A"
\* with a 16-bit and with a 64-bit length; Text "A" masked; Close 1000
\* masked; RSV1 set; opcode 3; Ping not final; Ping with length code 126;
\* Close of one byte
WireInput ==
    {<<129, 1, 65>>,
     <<130, 126, 0, 1, 65>>,
     <<130, 127, 0, 0, 0, 0, 0, 0, 0, 1, 65>>,
     <<129, 129, 1, 2, 3, 4, 64>>,
     <<136, 130, 1, 2, 3, 4, 2, 234>>,
     <<193, 0>>,
     <<131, 0>>,
     <<9, 0>>,
     <<137, 126, 0, 126>>,
     <<136, 1, 65>>}

NoRoundTrip == [ok |-> FALSE, err |-> "-", msg |-> NoMsg]
NoDec == [kind |-> "-", err |-> "-", frame |-> NoFrame, consumed |-> 0]

\* the pipeline before its first step
Pipeline(stage, m, enc, dec, key, wire) ==
    [stage |-> stage, m |-> m, enc |-> enc, dec |-> dec, key |-> key,
     back |-> NoRoundTrip, frames |-> <<>>, i |-> 0, wire |-> wire,
     whole |-> NoDec, pos |-> 0, buf |-> <<>>, out |-> NoDec]

CodecInput ==
    {Pipeline("message", m, "Client", dec, key, <<>>) :
         m \in SmallMessage, dec \in Role, key \in MaskKey}
    \cup {Pipeline("message", m, "Server", dec, ZeroKey, <<>>) :
         m \in SmallMessage, dec \in Role}
    \cup {Pipeline("message", m, "Client", "Server", <<55, 250, 33, 61>>, <<>>) :
         m \in BigMessage}
    \cup {Pipeline("wire", NoMsg, "Server", dec, ZeroKey, w) :
         w \in WireInput, dec \in Role}

InitCodec ==
    /\ codec \in CodecInput
    /\ role = codec.enc
    /\ New

stream == <<role, state, framing_payload, framing_opcode, framing_final, pc,
            call, ret, raw, sent, rx, before, arg, prev_close, msg_opcode,
            msg_payload, msg_verdict, had_error, had_close>>

\* the message is turned into (opcode, payload) and back
IntoRaw ==
    /\ codec.stage = "message"
    /\ \E rw \in {into_raw(codec.m)} :
           codec' = [codec EXCEPT !.stage = "raw",
                                  !.back = from_raw(rw.opcode, rw.data)]
    /\ UNCHANGED stream

\* write_message on a new stream: the frames it hands to the encoder
Frames ==
    /\ codec.stage = "raw"
    /\ codec' = [codec EXCEPT
                     !.stage = "frames",
                     !.frames = write_message("Active", codec.enc, codec.m, 0).sent]
    /\ UNCHANGED stream

\* the next frame is encoded
Encode ==
    /\ codec.stage \in {"frames", "fed"}
    /\ codec.i < Len(codec.frames)
    /\ codec' = [codec EXCEPT
                     !.stage = "wire",
                     !.i = codec.i + 1,
                     !.wire = encode(codec.enc, codec.frames[codec.i + 1], codec.key),
                     !.whole = NoDec, !.pos = 0, !.buf = <<>>, !.out = NoDec]
    /\ UNCHANGED stream

\* decode is called on all the bytes of the frame
Decode ==
    /\ codec.stage = "wire"
    /\ codec' = [codec EXCEPT !.stage = "decoded",
                              !.whole = decode(codec.dec, codec.wire)]
    /\ UNCHANGED stream

\* one more byte of the frame arrives in the buffer of a second decoder,
\* and decode is called on the buffer
Feed ==
    /\ codec.stage \in {"decoded", "feeding"}
    /\ codec.pos < Len(codec.wire)
    /\ \E src \in {Append(codec.buf, codec.wire[codec.pos + 1])} :
       \E r \in {decode(codec.dec, src)} :
           codec' = [codec EXCEPT
                         !.stage = IF r.kind = "err" THEN "failed"
                                   ELSE IF codec.pos + 1 = Len(codec.wire)
                                   THEN "fed" ELSE "feeding",
                         !.pos = codec.pos + 1,
                         !.buf = SubSeq(src, r.consumed + 1, Len(src)),
                         !.out = r]
    /\ UNCHANGED stream

NextCodec == IntoRaw \/ Frames \/ Encode \/ Decode \/ Feed

SpecCodec == InitCodec /\ [][NextCodec]_vars

-----------------------------------------------------------------------------
(* Outbound chunking *)

\* the pipeline has run write_message on the message
Framed == codec.stage \in {"frames", "wire", "decoded", "feeding", "fed", "failed"}
              /\ codec.m # NoMsg

\* the payloads of the frames, one after the other
RECURSIVE Payloads(_)
Payloads(frames) ==
    IF frames = <<>> THEN <<>>
    ELSE frames[1].payload \o Payloads(Tail(frames))

\* C11: write_message splits a raw payload of n bytes into
\* max(1, ceil(n / 4096)) frames whose payloads concatenate to the payload;
\* the first frame carries the message's opcode, every later frame carries
\* Continuation, exactly the last frame is final, and an empty payload gives
\* exactly one frame.
C11_Chunking ==
    Framed =>
        LET rw == into_raw(codec.m)
            n == Len(rw.data)
            ceil == (n + 4095) \div 4096
            frames == codec.frames
        IN  /\ Len(frames) = IF ceil > 1 THEN ceil ELSE 1
            /\ Payloads(frames) = rw.data
            /\ frames[1].opcode = rw.opcode
            /\ \A i \in 2..Len(frames) : frames[i].opcode = "Continuation"
            /\ \A i \in 1..Len(frames) : frames[i].is_final <=> i = Len(frames)
            /\ n = 0 => Len(frames) = 1

\* a message of two full chunks and one more byte has been split
C11_Witness ==
    /\ codec.stage = "frames"
    /\ Len(into_raw(codec.m).data) = 2 * 4096 + 1
    /\ Len(codec.frames) = 3
    /\ Len(codec.frames[3].payload) = 1

-----------------------------------------------------------------------------
(* Control frames *)

\* a control frame is whole: final, and of at most 125 bytes
Whole(frame) ==
    is_control(frame.opcode) => frame.is_final /\ Len(frame.payload) <= 125

\* C12: every frame with a control opcode, whether decode returned it or
\* write_message built it for a message of the caller, is final and has a
\* payload of at most 125 bytes.
C12_ControlFramesWhole ==
    /\ Framed => \A i \in 1..Len(codec.frames) : Whole(codec.frames[i])
    /\ codec.whole.kind = "frame" => Whole(codec.whole.frame)
    /\ codec.out.kind = "frame" => Whole(codec.out.frame)

-----------------------------------------------------------------------------
(* Masking *)

\* the MASK bit of the frame on the wire is clear
Unmasked == Len(codec.wire) >= 2 /\ codec.wire[2] < 128

\* C15: a decoder in the Server role rejects every frame whose MASK bit is
\* clear with a protocol error and returns no Frame for it.
C15_ServerRejectsUnmasked ==
    (codec.stage = "decoded" /\ codec.dec = "Server" /\ Unmasked)
        => codec.whole.kind = "err" /\ codec.whole.err \in ProtocolError

-----------------------------------------------------------------------------
(* Decoding from a buffer that fills a byte at a time *)

\* the frame on the wire was encoded by encode from a frame that is whole,
\* for a decoder that takes frames of that encoder's role
ValidEncoded ==
    /\ codec.i >= 1
    /\ Whole(codec.frames[codec.i])
    /\ ~(codec.enc = "Client" /\ codec.dec = "Client")

\* the bytes on the wire are a frame that decode accepts when it is given
\* all of them at once
ValidDecoded ==
    /\ codec.stage \in {"decoded", "feeding", "fed", "failed"}
    /\ codec.whole.kind = "frame"

\* decode has been called on the first pos bytes of the frame, a byte at a
\* time
Fed == codec.stage \in {"feeding", "fed", "failed"}

\* C16: feeding the bytes of a valid encoded frame to decode a byte at a
\* time never returns an error: decode returns Ok(None) for every proper
\* prefix and leaves the buffer as it is, and once the whole frame is in the
\* buffer it returns one Frame, the one that decoding all the bytes at once
\* returns, and takes exactly the frame's bytes from the buffer.
C16_ByteAtATime ==
    /\ (Fed /\ (ValidEncoded \/ ValidDecoded))
           => IF codec.pos < Len(codec.wire)
              THEN /\ codec.out = DecNone
                   /\ codec.buf = SubSeq(codec.wire, 1, codec.pos)
              ELSE /\ codec.out.kind = "frame"
                   /\ codec.out = codec.whole
                   /\ codec.out.consumed = Len(codec.wire)
                   /\ codec.buf = <<>>
    /\ (codec.stage = "decoded" /\ ValidEncoded)
           => codec.whole.kind = "frame"

\* a masked frame with a 16-bit length has been fed whole, a byte at a time
C16_Witness ==
    /\ codec.stage = "fed"
    /\ ValidEncoded
    /\ codec.wire[2] = 254
    /\ codec.pos = Len(codec.wire)
    /\ codec.out.kind = "frame"
    /\ Len(codec.out.frame.payload) = 4096

\* C17: for every frame and every masking key, decoding in the Server role
\* the bytes that a Client-role encode produced for the frame gives a frame
\* with the same opcode, the same is_final and the same payload.
C17_MaskedRoundTrip ==
    (codec.stage = "decoded" /\ codec.i >= 1
        /\ codec.enc = "Client" /\ codec.dec = "Server")
        => /\ codec.whole.kind = "frame"
           /\ codec.whole.frame = codec.frames[codec.i]

\* the round trip of the frames that are whole
MaskedRoundTripOfWhole ==
    (codec.stage = "decoded" /\ codec.i >= 1
        /\ codec.enc = "Client" /\ codec.dec = "Server"
        /\ Whole(codec.frames[codec.i]))
        => /\ codec.whole.kind = "frame"
           /\ codec.whole.frame = codec.frames[codec.i]
           /\ codec.whole.consumed = Len(codec.wire)

-----------------------------------------------------------------------------
(* Messages to (opcode, payload) and back *)

\* the pipeline has turned the message into (opcode, payload) and back
WentBack == codec.stage \notin {"-", "message"} /\ codec.m # NoMsg

\* the close code of the message, if it has one, is allowed and is the
\* variant that stands for its number
Canonical(m) ==
    (m.kind = "Close" /\ m.some)
        => \/ m.code.name \in {"NormalClosure", "GoingAway", "ProtocolError",
                               "UnsupportedData", "InvalidFramePayloadData",
                               "PolicyViolation", "MessageTooBig",
                               "MandatoryExtension", "InternalServerError"}
           \/ m.code.name = "Libraries" /\ m.code.value \in 3000..3999
           \/ m.code.name = "Private" /\ m.code.value \in 4000..4999

\* C18 as stated: for every message a caller can build, from_raw of what
\* into_raw returns succeeds and gives a message equal to it.
C18_EveryMessageGoesBack ==
    WentBack => codec.back.ok /\ codec.back.msg = codec.m

\* C18: for every message a caller can build whose close code, if it has
\* one, is allowed and is the variant that stands for its number, from_raw
\* of what into_raw returns succeeds and gives a message equal to it; for
\* any other close code it fails or gives another message.
C18_CanonicalMessageGoesBack ==
    WentBack => (Canonical(codec.m)
                    <=> (codec.back.ok /\ codec.back.msg = codec.m))

\* a Close with a code of the Libraries range and a reason has gone back
C18_Witness ==
    /\ codec.stage = "raw"
    /\ codec.m = CloseSome(Code("Libraries", 3000), <<66, 67>>)
    /\ codec.back.ok
    /\ codec.back.msg = codec.m

=============================================================================
